---- MODULE Spec2Model ----
(***************************************************************************)
(* Model of the discovery-and-scan engine of RancherResourceScanner        *)
(* (pkg/k8s/k8s.go): ScanNamespaceResources and the functions it calls.    *)
(*                                                                         *)
(* Strings that the code parses or re-assembles (apiVersion, GroupVersion) *)
(* are sequences of tokens, "/" being the separator token, so that         *)
(* ParseGroupVersion and GroupVersion.String are computed, not assumed.    *)
(***************************************************************************)
EXTENDS Integers, Sequences, FiniteSets, Bags, TLC

VARIABLES
  \* ---- the cluster (the API server's answers) ----
  disc,            \* health of the discovery endpoint: "ok", "partial", "total"
  nsErr,           \* TRUE when listing the namespaces fails
  clusterNs,       \* the namespaces of the cluster, in enumeration order
  store,           \* <<namespace, resource name>> -> objects, in listing order
  listErr,         \* the <<namespace, resource name>> pairs whose list call fails
  changes,         \* number of changes of the cluster since the first invocation began
  \* ---- ScanNamespaceResources ----
  phase,           \* "Init", "DiscoverTypes", "DiscoverNamespaces", "Traverse", "Done"
  step,            \* inside Traverse: "gate", "list", "object"
  pass,            \* number of the invocation under way
  resources,       \* k8s.go:213
  namespaces,      \* k8s.go:222
  nsIdx,           \* position of the loop of k8s.go:230
  resIdx,          \* position of the loop of k8s.go:232
  objects,         \* k8s.go:242, the names listed for the pair under way
  objIdx,          \* position of the loop of k8s.go:250
  obj,             \* k8s.go:253, the last object fetched (the checks' input)
  finalizerIssues, \* k8s.go:260
  ownerRefIssues,  \* k8s.go:267
  supportsList,    \* the value returned by resourceSupportsList at k8s.go:234
  results,         \* k8s.go:209
  err,             \* the error returned, TRUE for non-nil
  \* ---- what an observer of the pass sees ----
  mode,            \* "scan", or the function a checks-only run applies
  gvrArg,          \* the resource type handed to resourceSupportsList
  origin,          \* origin[n]: the <<namespace, type, name>> results[n] was found on
  gateCalls,       \* <<namespace, type>> pairs whose capability gate was evaluated in this pass
  listCalls,       \* list calls issued to the dynamic client in this pass
  getCalls,        \* get calls of scanned objects issued in this pass
  fetched,         \* scanned objects returned by a successful get in this pass
  errLog,          \* log.Errorf lines of the recoverable errors of this pass
  firstResults,    \* what the first invocation returned
  firstErr

vars == <<disc, nsErr, clusterNs, store, listErr, changes, phase, step, pass,
          resources, namespaces, nsIdx, resIdx, objects, objIdx, obj,
          finalizerIssues, ownerRefIssues, supportsList, results, err, mode,
          gvrArg, origin, gateCalls, listCalls, getCalls, fetched, errLog, firstResults,
          firstErr>>

clusterVars == <<disc, nsErr, clusterNs, store, listErr, changes>>

\* ---- bounds ----
MaxPasses == 2
MaxChanges == 1
MaxNamespaces == 2
MaxObjects == 2
MaxFinalizers == 2
MaxOwners == 2

Null == "null"

Min(a, b) == IF a < b THEN a ELSE b

\* ---- strings as token sequences ----
Slash == "/"

CountSlash(s) == Cardinality({n \in 1..Len(s) : s[n] = Slash})

IndexSlash(s) == CHOOSE n \in 1..Len(s) : s[n] = Slash /\ \A m \in 1..(n - 1) : s[m] # Slash

\* schema.ParseGroupVersion: "" and "/" give the empty GroupVersion, no slash
\* gives a version alone, one slash splits, more is an error.
ParseGroupVersion(s) ==
  IF Len(s) = 0 \/ s = <<Slash>>
  THEN [err |-> FALSE, Group |-> <<>>, Version |-> <<>>]
  ELSE IF CountSlash(s) = 0
  THEN [err |-> FALSE, Group |-> <<>>, Version |-> s]
  ELSE IF CountSlash(s) = 1
  THEN [err |-> FALSE, Group |-> SubSeq(s, 1, IndexSlash(s) - 1),
        Version |-> SubSeq(s, IndexSlash(s) + 1, Len(s))]
  ELSE [err |-> TRUE, Group |-> <<>>, Version |-> <<>>]

\* schema.GroupVersion.String
GroupVersionString(gv) ==
  IF Len(gv.Group) > 0 THEN gv.Group \o <<Slash>> \o gv.Version ELSE gv.Version

\* schema.GroupVersion.WithResource
WithResource(gv, name) == [Group |-> gv.Group, Version |-> gv.Version, Resource |-> name]

GVRGroupVersion(gvr) == [Group |-> gvr.Group, Version |-> gvr.Version]

\* ---- the discovery catalog of the cluster ----
CoreV1 == <<"v1">>
AppsV1 == <<"apps", Slash, "v1">>
MetricsV1 == <<"metrics.k8s.io", Slash, "v1beta1">>

APIResource(name, kind, namespaced, verbs) ==
  [Name |-> name, Kind |-> kind, Namespaced |-> namespaced, Verbs |-> verbs]

\* bindings is namespaced and cannot be listed; nodes is cluster-scoped.
Catalog ==
  << [GroupVersion |-> CoreV1,
      APIResources |-> << APIResource("pods", "Pod", TRUE, <<"get", "list", "delete">>),
                          APIResource("bindings", "Binding", TRUE, <<"create">>),
                          APIResource("nodes", "Node", FALSE, <<"get", "list">>) >>],
     [GroupVersion |-> AppsV1,
      APIResources |-> << APIResource("deployments", "Deployment", TRUE,
                                      <<"get", "list", "delete">>) >>],
     [GroupVersion |-> MetricsV1,
      APIResources |-> << APIResource("podmetrics", "PodMetrics", TRUE,
                                      <<"get", "list">>) >>] >>

\* the group whose discovery fails when discovery is partial
FailedGroupVersion == MetricsV1

DiscStates == {"ok", "partial", "total"}

\* discovery.ServerPreferredResources: the lists it could fetch, and the error:
\* "GroupDiscoveryFailed" with the other groups' lists, or another error with none.
ServerPreferredResources(d) ==
  IF d = "ok" THEN [lists |-> Catalog, err |-> "nil"]
  ELSE IF d = "partial"
  THEN [lists |-> SelectSeq(Catalog, LAMBDA l : l.GroupVersion # FailedGroupVersion),
        err |-> "GroupDiscoveryFailed"]
  ELSE [lists |-> <<>>, err |-> "other"]

\* discovery.ServerPreferredNamespacedResources: the same query, each list
\* filtered to its namespaced resources, lists left empty dropped.
ServerPreferredNamespacedResources(d) ==
  LET all == ServerPreferredResources(d)
      filtered == [n \in 1..Len(all.lists) |->
                     [GroupVersion |-> all.lists[n].GroupVersion,
                      APIResources |-> SelectSeq(all.lists[n].APIResources,
                                                 LAMBDA r : r.Namespaced)]]
  IN [lists |-> SelectSeq(filtered, LAMBDA l : Len(l.APIResources) > 0),
      err |-> all.err]

IsGroupDiscoveryFailedError(e) == e = "GroupDiscoveryFailed"

RECURSIVE Concat(_)
Concat(ss) == IF Len(ss) = 0 THEN <<>> ELSE Head(ss) \o Concat(Tail(ss))

\* GetNamespaceScopedResources: [err, resources]
GetNamespaceScopedResources(d) ==
  LET q == ServerPreferredNamespacedResources(d)
      parsed == [n \in 1..Len(q.lists) |-> ParseGroupVersion(q.lists[n].GroupVersion)]
      perList == [n \in 1..Len(q.lists) |->
                    LET named == SelectSeq(q.lists[n].APIResources, LAMBDA r : r.Namespaced)
                    IN [m \in 1..Len(named) |-> WithResource(parsed[n], named[m].Name)]]
  IN IF q.err # "nil" /\ ~IsGroupDiscoveryFailedError(q.err)
     THEN [err |-> TRUE, resources |-> <<>>]
     ELSE IF \E n \in 1..Len(q.lists) : parsed[n].err
     THEN [err |-> TRUE, resources |-> <<>>]
     ELSE [err |-> FALSE, resources |-> Concat(perList)]

\* a variant that swallows the error of the namespace listing
GetNamespaces_Swallowed(failing, nss) == [err |-> FALSE, namespaces |-> nss]

\* GetNamespaces: [err, namespaces]
GetNamespaces(failing, nss) ==
  IF failing THEN [err |-> TRUE, namespaces |-> <<>>]
  ELSE [err |-> FALSE, namespaces |-> nss]

SeqHas(s, x) == \E n \in 1..Len(s) : s[n] = x

MatchingLists(lists, resource) ==
  SelectSeq(lists, LAMBDA l : l.GroupVersion = GroupVersionString(GVRGroupVersion(resource)))

\* the first resource named resource.Resource in the lists of its group/version
NamedResources(lists, resource) ==
  Concat([n \in 1..Len(MatchingLists(lists, resource)) |->
            SelectSeq(MatchingLists(lists, resource)[n].APIResources,
                      LAMBDA r : r.Name = resource.Resource)])

\* a variant that answers from the groups that were discovered when discovery
\* fails for some group only
resourceSupportsList_Tolerant(d, resource) ==
  LET q == ServerPreferredResources(d)
  IN IF q.err = "other" THEN FALSE
     ELSE IF Len(NamedResources(q.lists, resource)) = 0 THEN FALSE
     ELSE SeqHas(NamedResources(q.lists, resource)[1].Verbs, "list")

\* a variant that lets every type through
resourceSupportsList_Always(d, resource) == TRUE

\* resourceSupportsList
resourceSupportsList(d, resource) ==
  LET q == ServerPreferredResources(d)
  IN IF q.err # "nil" THEN FALSE
     ELSE IF Len(NamedResources(q.lists, resource)) = 0 THEN FALSE
     ELSE SeqHas(NamedResources(q.lists, resource)[1].Verbs, "list")

\* ---- the dynamic client ----
ServedBy(resource) == NamedResources(Catalog, resource)

\* dynamicClient.Resource(resource).Namespace(ns).List: [err, items]
DynList(st, failing, ns, resource) ==
  IF Len(ServedBy(resource)) = 0 THEN [err |-> TRUE, items |-> <<>>]
  ELSE IF ~SeqHas(ServedBy(resource)[1].Verbs, "list") THEN [err |-> TRUE, items |-> <<>>]
  ELSE IF <<ns, resource.Resource>> \in failing THEN [err |-> TRUE, items |-> <<>>]
  ELSE [err |-> FALSE, items |-> st[<<ns, resource.Resource>>]]

NoDocument == [Namespace |-> "", Kind |-> "", Name |-> "", Finalizers |-> <<>>,
               DeletionTimestamp |-> Null, OwnerReferences |-> <<>>]

\* the unstructured.Unstructured the API server returns for a stored object
Document(ns, o) ==
  [Namespace |-> ns, Kind |-> o.Kind, Name |-> o.Name, Finalizers |-> o.Finalizers,
   DeletionTimestamp |-> o.DeletionTimestamp, OwnerReferences |-> o.OwnerReferences]

\* dynamicClient.Resource(resource).Namespace(ns).Get: [err, doc], err being
\* "nil", "NotFound" (no such type or object) or "other" (forbidden, timeout)
DynGet(st, ns, resource, name) ==
  IF Len(ServedBy(resource)) = 0 \/ <<ns, resource.Resource>> \notin DOMAIN st
  THEN [err |-> "NotFound", doc |-> NoDocument]
  ELSE LET found == SelectSeq(st[<<ns, resource.Resource>>], LAMBDA o : o.Name = name)
       IN IF Len(found) = 0 THEN [err |-> "NotFound", doc |-> NoDocument]
          ELSE IF found[1].getErr THEN [err |-> "other", doc |-> NoDocument]
          ELSE [err |-> "nil", doc |-> Document(ns, found[1])]

\* GetNamespaceObjects: [err, names]
GetNamespaceObjects(st, failing, ns, resource) ==
  LET l == DynList(st, failing, ns, resource)
  IN IF l.err THEN [err |-> TRUE, names |-> <<>>]
     ELSE [err |-> FALSE, names |-> [n \in 1..Len(l.items) |-> l.items[n].Name]]

\* ---- the health checks ----
ResourceCheckResult(ns, resource, name, issue, info) ==
  [Namespace |-> ns, Resource |-> resource, Name |-> name, Issue |-> issue,
   AdditionalInfo |-> info]

StuckFinalizer == "Stuck finalizer"
InvalidOwnerReference == "Invalid ownerReference"

\* fmt.Sprintf("Finalizers: %v, DeletionTimestamp: %v", ...)
FinalizerInfo(o) == <<"Finalizers", o.Finalizers, "DeletionTimestamp", o.DeletionTimestamp>>

\* fmt.Sprintf("OwnerReference: APIVersion=%s, Kind=%s, Name=%s, UID=%s", ...)
OwnerInfo(owner) ==
  <<"OwnerReference", "APIVersion", owner.APIVersion, "Kind", owner.Kind,
    "Name", owner.Name, "UID", owner.UID>>

\* a variant that reports every finalizer of a stuck object on its own
CheckStuckFinalizers_PerFinalizer(o) ==
  IF Len(o.Finalizers) > 0 /\ o.DeletionTimestamp # Null
  THEN [n \in 1..Len(o.Finalizers) |->
          ResourceCheckResult(o.Namespace, o.Kind, o.Name, StuckFinalizer, FinalizerInfo(o))]
  ELSE <<>>

\* CheckStuckFinalizers
CheckStuckFinalizers(o) ==
  IF Len(o.Finalizers) > 0 /\ o.DeletionTimestamp # Null
  THEN << ResourceCheckResult(o.Namespace, o.Kind, o.Name, StuckFinalizer, FinalizerInfo(o)) >>
  ELSE <<>>

\* the GroupVersionResource OwnerExists asks for: the kind stands for the resource name
OwnerResource(owner) ==
  WithResource(ParseGroupVersion(owner.APIVersion), owner.Kind)

\* OwnerExists
OwnerExists(st, owner, namespace) ==
  IF ParseGroupVersion(owner.APIVersion).err THEN FALSE
  ELSE DynGet(st, namespace, OwnerResource(owner), owner.Name).err = "nil"

\* a variant whose findings name the owner instead of the object
CheckInvalidOwnerReferences_NamesOwner(st, o, namespace) ==
  LET missing == SelectSeq(o.OwnerReferences, LAMBDA owner : ~OwnerExists(st, owner, namespace))
  IN [n \in 1..Len(missing) |->
        ResourceCheckResult(o.Namespace, o.Kind, missing[n].Name, InvalidOwnerReference,
                            OwnerInfo(missing[n]))]

\* a variant that stops at the first owner that does not resolve
CheckInvalidOwnerReferences_FirstOnly(st, o, namespace) ==
  LET missing == SelectSeq(o.OwnerReferences, LAMBDA owner : ~OwnerExists(st, owner, namespace))
  IN [n \in 1..Min(1, Len(missing)) |->
        ResourceCheckResult(o.Namespace, o.Kind, o.Name, InvalidOwnerReference,
                            OwnerInfo(missing[n]))]

\* CheckInvalidOwnerReferences
CheckInvalidOwnerReferences(st, o, namespace) ==
  LET missing == SelectSeq(o.OwnerReferences, LAMBDA owner : ~OwnerExists(st, owner, namespace))
  IN [n \in 1..Len(missing) |->
        ResourceCheckResult(o.Namespace, o.Kind, o.Name, InvalidOwnerReference,
                            OwnerInfo(missing[n]))]

\* ---- the clusters the scan is run against ----
SeqsUpTo(S, k) == UNION {[1..n -> S] : n \in 0..k}

AllNamespaces == <<"app", "kube-system", "extra", "default">>
PodNames == <<"p1", "p2", "p3", "p4">>
DeletedAt == "2024-01-01T00:00:00Z"
MalformedAPIVersion == <<"apps", Slash, "v1", Slash, "beta">>

OwnerRef(apiVersion, kind, name) ==
  [APIVersion |-> apiVersion, Kind |-> kind, Name |-> name, UID |-> <<"uid", name>>]

StoredObject(name, kind, finalizers, deleted, owners, failing) ==
  [Name |-> name, Kind |-> kind, Finalizers |-> finalizers, DeletionTimestamp |-> deleted,
   OwnerReferences |-> owners, getErr |-> failing]

\* every namespace holds Deployment d2, whose get fails, and Deployment d1
Deployments ==
  << StoredObject("d2", "Deployment", <<>>, Null, <<>>, TRUE),
     StoredObject("d1", "Deployment", <<>>, Null, <<>>, FALSE) >>

\* the pods a namespace may hold: one stuck in deletion, with a deleted owner and
\* an owner that resolves; one not being deleted, whose owner's get fails
StuckPod ==
  [Finalizers |-> <<"a.io/cleanup", "b.io/hold">>, DeletionTimestamp |-> DeletedAt,
   OwnerReferences |-> << OwnerRef(AppsV1, "deployments", "gone"),
                          OwnerRef(AppsV1, "deployments", "d1") >>]

OwnedPod ==
  [Finalizers |-> <<"a.io/cleanup">>, DeletionTimestamp |-> Null,
   OwnerReferences |-> << OwnerRef(AppsV1, "deployments", "d2") >>]

PodShapes == {StuckPod, OwnedPod}

Pods(shapes) ==
  [n \in 1..Len(shapes) |->
     StoredObject(PodNames[n], "Pod", shapes[n].Finalizers, shapes[n].DeletionTimestamp,
                  shapes[n].OwnerReferences, FALSE)]

ResourceNames == {"pods", "bindings", "deployments", "podmetrics"}

Range(s) == {s[n] : n \in 1..Len(s)}

StoreOf(nss, shapes) ==
  [p \in Range(nss) \X ResourceNames |->
     IF p[2] = "pods" THEN Pods(shapes)
     ELSE IF p[2] = "deployments" THEN Deployments
     ELSE <<>>]

NoGVR == [Group |-> <<>>, Version |-> <<>>, Resource |-> ""]

\* the local variables of an invocation that has not run yet
Fresh ==
  [step |-> "gate", resources |-> <<>>, namespaces |-> <<>>, nsIdx |-> 1, resIdx |-> 1,
   objects |-> <<>>, objIdx |-> 1, obj |-> NoDocument, finalizerIssues |-> <<>>,
   ownerRefIssues |-> <<>>, supportsList |-> FALSE, results |-> <<>>, err |-> FALSE,
   gvrArg |-> NoGVR, origin |-> <<>>, gateCalls |-> {}, listCalls |-> {},
   getCalls |-> {}, fetched |-> {}, errLog |-> {}]

Init ==
  /\ disc \in DiscStates
  /\ nsErr \in BOOLEAN
  /\ clusterNs \in {SubSeq(AllNamespaces, 1, n) : n \in 0..Min(MaxNamespaces, Len(AllNamespaces))}
  /\ \E shapes \in SeqsUpTo(PodShapes, Min(MaxObjects, Len(PodNames))) :
       store = StoreOf(clusterNs, shapes)
  /\ listErr \in {{}, {<<AllNamespaces[1], "pods">>}}
  /\ changes = 0
  /\ phase = "Init"
  /\ pass = 1
  /\ mode = "scan"
  /\ step = Fresh.step
  /\ resources = Fresh.resources
  /\ namespaces = Fresh.namespaces
  /\ nsIdx = Fresh.nsIdx
  /\ resIdx = Fresh.resIdx
  /\ objects = Fresh.objects
  /\ objIdx = Fresh.objIdx
  /\ obj = Fresh.obj
  /\ finalizerIssues = Fresh.finalizerIssues
  /\ ownerRefIssues = Fresh.ownerRefIssues
  /\ supportsList = Fresh.supportsList
  /\ results = Fresh.results
  /\ err = Fresh.err
  /\ gvrArg = Fresh.gvrArg
  /\ origin = Fresh.origin
  /\ gateCalls = Fresh.gateCalls
  /\ listCalls = Fresh.listCalls
  /\ getCalls = Fresh.getCalls
  /\ fetched = Fresh.fetched
  /\ errLog = Fresh.errLog
  /\ firstResults = <<>>
  /\ firstErr = FALSE

\* ---- ScanNamespaceResources, step by step ----
scanVars == <<phase, step, pass, resources, namespaces, nsIdx, resIdx, objects, objIdx,
              obj, finalizerIssues, ownerRefIssues, supportsList, results, err, gvrArg,
              origin, gateCalls, listCalls, getCalls, fetched, errLog, firstResults, firstErr>>

\* a variant that leaves both loops, as `return` in place of `continue` would
NextPair_Leave(nss, rs, i, j) == <<Len(nss) + 1, 1>>

\* where the loops of k8s.go:230 and k8s.go:232 stand once the pair at (i, j) is
\* done; past the last namespace when none is left
NextPair(nss, rs, i, j) ==
  IF j < Len(rs) THEN <<i, j + 1>>
  ELSE IF i < Len(nss) /\ Len(rs) > 0 THEN <<i + 1, 1>>
  ELSE <<Len(nss) + 1, 1>>

FirstPair(nss, rs) ==
  IF Len(nss) > 0 /\ Len(rs) > 0 THEN <<1, 1>> ELSE <<Len(nss) + 1, 1>>

\* a variant that goes back to the discovery of the types when a step fails
Return_Retry(res, e) ==
  /\ phase' = IF e THEN "DiscoverTypes" ELSE "Done"
  /\ results' = res
  /\ err' = e
  /\ firstResults' = IF pass = 1 THEN res ELSE firstResults
  /\ firstErr' = IF pass = 1 THEN e ELSE firstErr

\* the return statements: the value returned, kept for comparison when the
\* invocation is the first one
Return(res, e) ==
  /\ phase' = "Done"
  /\ results' = res
  /\ err' = e
  /\ firstResults' = IF pass = 1 THEN res ELSE firstResults
  /\ firstErr' = IF pass = 1 THEN e ELSE firstErr

\* a variant that keeps the list of the invocation before, as a package-level
\* variable would
DeclareResults_Kept(returned) == returned

\* k8s.go:209: `var results []ResourceCheckResult`, whatever an earlier
\* invocation returned
DeclareResults(returned) == <<>>

\* k8s.go:208-212: the invocation starts, its local variables fresh
Begin ==
  /\ mode = "scan"
  /\ phase = "Init"
  /\ phase' = "DiscoverTypes"
  /\ results' = DeclareResults(results)
  /\ step' = Fresh.step
  /\ resources' = Fresh.resources
  /\ namespaces' = Fresh.namespaces
  /\ nsIdx' = Fresh.nsIdx
  /\ resIdx' = Fresh.resIdx
  /\ objects' = Fresh.objects
  /\ objIdx' = Fresh.objIdx
  /\ obj' = Fresh.obj
  /\ finalizerIssues' = Fresh.finalizerIssues
  /\ ownerRefIssues' = Fresh.ownerRefIssues
  /\ supportsList' = Fresh.supportsList
  /\ err' = Fresh.err
  /\ gvrArg' = Fresh.gvrArg
  /\ origin' = Fresh.origin
  /\ gateCalls' = Fresh.gateCalls
  /\ listCalls' = Fresh.listCalls
  /\ getCalls' = Fresh.getCalls
  /\ fetched' = Fresh.fetched
  /\ errLog' = Fresh.errLog
  /\ UNCHANGED <<pass, firstResults, firstErr>>
  /\ UNCHANGED <<clusterVars, mode>>

\* k8s.go:213-218
DiscoverTypes ==
  /\ mode = "scan"
  /\ phase = "DiscoverTypes"
  /\ LET r == GetNamespaceScopedResources(disc)
     IN IF r.err
        THEN /\ Return(<<>>, TRUE)
             /\ UNCHANGED resources
        ELSE /\ resources' = r.resources
             /\ phase' = "DiscoverNamespaces"
             /\ UNCHANGED <<results, err, firstResults, firstErr>>
  /\ UNCHANGED <<step, pass, namespaces, nsIdx, resIdx, objects, objIdx, obj,
                 finalizerIssues, ownerRefIssues, supportsList, gvrArg, origin,
                 gateCalls, listCalls, getCalls, fetched, errLog>>
  /\ UNCHANGED <<clusterVars, mode>>

\* k8s.go:222-227, and the entry into the loops of k8s.go:230-232
DiscoverNamespaces ==
  /\ mode = "scan"
  /\ phase = "DiscoverNamespaces"
  /\ LET r == GetNamespaces(nsErr, clusterNs)
     IN IF r.err
        THEN /\ Return(<<>>, TRUE)
             /\ UNCHANGED <<namespaces, nsIdx, resIdx, step>>
        ELSE /\ namespaces' = r.namespaces
             /\ phase' = "Traverse"
             /\ step' = "gate"
             /\ nsIdx' = FirstPair(r.namespaces, resources)[1]
             /\ resIdx' = FirstPair(r.namespaces, resources)[2]
             /\ UNCHANGED <<results, err, firstResults, firstErr>>
  /\ UNCHANGED <<pass, resources, objects, objIdx, obj, finalizerIssues, ownerRefIssues,
                 supportsList, gvrArg, origin, gateCalls, listCalls, getCalls, fetched, errLog>>
  /\ UNCHANGED <<clusterVars, mode>>

\* `continue` of the loop of k8s.go:232, or its natural end
AdvancePair ==
  /\ nsIdx' = NextPair(namespaces, resources, nsIdx, resIdx)[1]
  /\ resIdx' = NextPair(namespaces, resources, nsIdx, resIdx)[2]
  /\ step' = "gate"

InTraverse(s) ==
  /\ mode = "scan"
  /\ phase = "Traverse"
  /\ nsIdx <= Len(namespaces)
  /\ step = s

\* k8s.go:232-237: the capability gate of the pair under way
Gate ==
  /\ InTraverse("gate")
  /\ gvrArg' = resources[resIdx]
  /\ supportsList' = resourceSupportsList(disc, resources[resIdx])
  /\ gateCalls' = gateCalls \cup {<<namespaces[nsIdx], resources[resIdx]>>}
  /\ errLog' = IF ServerPreferredResources(disc).err # "nil"
               THEN errLog \cup {<<"probe", resources[resIdx]>>}
               ELSE errLog
  /\ IF supportsList'
     THEN /\ step' = "list"
          /\ UNCHANGED <<nsIdx, resIdx>>
     ELSE AdvancePair
  /\ UNCHANGED <<phase, pass, resources, namespaces, objects, objIdx, obj, finalizerIssues,
                 ownerRefIssues, results, err, origin, listCalls, getCalls, fetched,
                 firstResults, firstErr>>
  /\ UNCHANGED <<clusterVars, mode>>

\* k8s.go:239-247: the listing of the pair under way
ListObjects ==
  /\ InTraverse("list")
  /\ LET ns == namespaces[nsIdx]
         resource == resources[resIdx]
         l == GetNamespaceObjects(store, listErr, ns, resource)
     IN /\ listCalls' = listCalls \cup {<<ns, resource>>}
        /\ IF l.err
           THEN /\ errLog' = errLog \cup {<<"list", ns, resource>>}
                /\ AdvancePair
                /\ UNCHANGED <<objects, objIdx>>
           ELSE /\ objects' = l.names
                /\ objIdx' = 1
                /\ UNCHANGED errLog
                /\ IF Len(l.names) = 0
                   THEN AdvancePair
                   ELSE /\ step' = "object"
                        /\ UNCHANGED <<nsIdx, resIdx>>
  /\ UNCHANGED <<phase, pass, resources, namespaces, obj, finalizerIssues, ownerRefIssues,
                 supportsList, results, err, gvrArg, origin, gateCalls, getCalls, fetched,
                 firstResults, firstErr>>
  /\ UNCHANGED <<clusterVars, mode>>

\* a variant that appends the findings on the owners before the one on the
\* finalizers
Appended_OwnersFirst(fin, own) == (IF Len(own) > 0 THEN own ELSE <<>>) \o fin

\* the findings k8s.go:264-271 append for one object
Appended(fin, own) == fin \o (IF Len(own) > 0 THEN own ELSE <<>>)

\* k8s.go:250-272: one iteration of the object loop
CheckObject ==
  /\ InTraverse("object")
  /\ LET ns == namespaces[nsIdx]
         resource == resources[resIdx]
         objectName == objects[objIdx]
         g == DynGet(store, ns, resource, objectName)
         fin == CheckStuckFinalizers(g.doc)
         own == CheckInvalidOwnerReferences(store, g.doc, ns)
     IN /\ getCalls' = getCalls \cup {<<ns, resource, objectName>>}
        /\ IF g.err # "nil"
           THEN /\ errLog' = errLog \cup {<<"get", ns, resource, objectName>>}
                /\ UNCHANGED <<obj, finalizerIssues, ownerRefIssues, results, origin, fetched>>
           ELSE /\ obj' = g.doc
                /\ finalizerIssues' = fin
                /\ ownerRefIssues' = own
                /\ results' = results \o Appended(fin, own)
                /\ origin' = origin \o [n \in 1..Len(Appended(fin, own)) |->
                                          <<ns, resource, objectName>>]
                /\ fetched' = fetched \cup {<<ns, resource, objectName>>}
                /\ UNCHANGED errLog
  /\ IF objIdx < Len(objects)
     THEN /\ objIdx' = objIdx + 1
          /\ UNCHANGED <<nsIdx, resIdx, step>>
     ELSE /\ AdvancePair
          /\ UNCHANGED objIdx
  /\ UNCHANGED <<phase, pass, resources, namespaces, objects, supportsList, err, gvrArg,
                 gateCalls, listCalls, firstResults, firstErr>>
  /\ UNCHANGED <<clusterVars, mode>>

\* k8s.go:277-278: the loops are over
Finish ==
  /\ mode = "scan"
  /\ phase = "Traverse"
  /\ nsIdx > Len(namespaces)
  /\ Return(results, FALSE)
  /\ UNCHANGED <<step, pass, resources, namespaces, nsIdx, resIdx, objects, objIdx, obj,
                 finalizerIssues, ownerRefIssues, supportsList, gvrArg, origin, gateCalls,
                 listCalls, getCalls, fetched, errLog>>
  /\ UNCHANGED <<clusterVars, mode>>

\* main.go:35 run again: the next invocation
Rerun ==
  /\ mode = "scan"
  /\ phase = "Done"
  /\ pass < MaxPasses
  /\ pass' = pass + 1
  /\ phase' = "Init"
  /\ UNCHANGED <<step, resources, namespaces, nsIdx, resIdx, objects, objIdx, obj,
                 finalizerIssues, ownerRefIssues, supportsList, results, err, gvrArg,
                 origin, gateCalls, listCalls, getCalls, fetched, errLog, firstResults,
                 firstErr>>
  /\ UNCHANGED <<clusterVars, mode>>

\* the scan is about to query the discovery endpoint (k8s.go:100, k8s.go:284)
AtDiscoveryQuery ==
  \/ phase = "DiscoverTypes"
  \/ phase = "Traverse" /\ step = "gate" /\ nsIdx <= Len(namespaces)

\* the discovery endpoint gets better or worse between two queries of the scan
ClusterChange ==
  /\ mode = "scan"
  /\ AtDiscoveryQuery
  /\ changes < MaxChanges
  /\ disc' \in DiscStates \ {disc}
  /\ changes' = changes + 1
  /\ UNCHANGED <<nsErr, clusterNs, store, listErr, mode>>
  /\ UNCHANGED scanVars

ScanStep ==
  \/ Begin
  \/ DiscoverTypes
  \/ DiscoverNamespaces
  \/ Gate
  \/ ListObjects
  \/ CheckObject
  \/ Finish
  \/ Rerun

Next == ScanStep \/ ClusterChange

Spec == Init /\ [][Next]_vars

\* clusters for the runs that are followed to their end: every namespace and
\* pod slot in use, any of the listings of the first two namespaces failing
FairInit ==
  /\ disc \in DiscStates
  /\ nsErr \in BOOLEAN
  /\ clusterNs = SubSeq(AllNamespaces, 1, Min(MaxNamespaces, Len(AllNamespaces)))
  /\ store = StoreOf(clusterNs, [n \in 1..Min(MaxObjects, Len(PodNames)) |->
                                   IF n % 2 = 1 THEN StuckPod ELSE OwnedPod])
  /\ listErr \in SUBSET {<<AllNamespaces[1], "pods">>, <<AllNamespaces[1], "deployments">>,
                         <<AllNamespaces[2], "pods">>}
  /\ changes = 0
  /\ phase = "Init"
  /\ pass = 1
  /\ mode = "scan"
  /\ step = Fresh.step
  /\ resources = Fresh.resources
  /\ namespaces = Fresh.namespaces
  /\ nsIdx = Fresh.nsIdx
  /\ resIdx = Fresh.resIdx
  /\ objects = Fresh.objects
  /\ objIdx = Fresh.objIdx
  /\ obj = Fresh.obj
  /\ finalizerIssues = Fresh.finalizerIssues
  /\ ownerRefIssues = Fresh.ownerRefIssues
  /\ supportsList = Fresh.supportsList
  /\ results = Fresh.results
  /\ err = Fresh.err
  /\ gvrArg = Fresh.gvrArg
  /\ origin = Fresh.origin
  /\ gateCalls = Fresh.gateCalls
  /\ listCalls = Fresh.listCalls
  /\ getCalls = Fresh.getCalls
  /\ fetched = Fresh.fetched
  /\ errLog = Fresh.errLog
  /\ firstResults = <<>>
  /\ firstErr = FALSE

\* the scan is sequential code: it takes its next step whenever it has one
FairSpec == FairInit /\ [][Next]_vars /\ WF_vars(ScanStep)

\* ---- the checks and the gate applied to bounded inputs ----
OwnerKinds == {"Deployment", "deployments"}
OwnerNames == {"d1", "d2", "gone"}

AllOwnerRefs ==
  {OwnerRef(a, k, n) : a \in {AppsV1, MalformedAPIVersion}, k \in OwnerKinds, n \in OwnerNames}
    \cup {OwnerRef(CoreV1, "deployments", "d1")}

AllFinalizers == {[n \in 1..k |-> IF n = 1 THEN "a.io/cleanup" ELSE "b.io/hold"] :
                    k \in 0..MaxFinalizers}

\* the objects handed to the checks: every finalizer list, deletion state and
\* owner list within the bounds
AllDocs ==
  {[Namespace |-> "app", Kind |-> "ReplicaSet", Name |-> "rs1", Finalizers |-> f,
    DeletionTimestamp |-> d, OwnerReferences |-> o] :
     f \in AllFinalizers, d \in {Null, DeletedAt}, o \in SeqsUpTo(AllOwnerRefs, MaxOwners)}

\* the resource types handed to the gate: the catalog's, and types it does not list
AllGVRs ==
  {WithResource(ParseGroupVersion(gv), r) :
     gv \in {CoreV1, AppsV1, MetricsV1},
     r \in {"pods", "bindings", "nodes", "deployments", "podmetrics", "widgets"}}

\* the types the API server serves without the "list" verb
TypesWithoutList ==
  {r \in AllGVRs : Len(ServedBy(r)) > 0 /\ "list" \notin Range(ServedBy(r)[1].Verbs)}

InitChecks ==
  /\ nsErr = FALSE
  /\ clusterNs = <<"app">>
  /\ store = StoreOf(<<"app">>, <<>>)
  /\ listErr = {}
  /\ changes = 0
  /\ phase = "Checks"
  /\ pass = 1
  /\ step = "call"
  /\ resources = Fresh.resources
  /\ namespaces = <<"app">>
  /\ nsIdx = Fresh.nsIdx
  /\ resIdx = Fresh.resIdx
  /\ objects = Fresh.objects
  /\ objIdx = Fresh.objIdx
  /\ finalizerIssues = Fresh.finalizerIssues
  /\ ownerRefIssues = Fresh.ownerRefIssues
  /\ supportsList = Fresh.supportsList
  /\ results = Fresh.results
  /\ err = Fresh.err
  /\ origin = Fresh.origin
  /\ gateCalls = Fresh.gateCalls
  /\ listCalls = Fresh.listCalls
  /\ getCalls = Fresh.getCalls
  /\ fetched = Fresh.fetched
  /\ errLog = Fresh.errLog
  /\ firstResults = <<>>
  /\ firstErr = FALSE
  /\ \/ /\ mode \in {"CheckStuckFinalizers", "CheckInvalidOwnerReferences"}
        /\ obj \in AllDocs
        /\ disc = "ok"
        /\ gvrArg = NoGVR
     \/ /\ mode = "resourceSupportsList"
        /\ obj = NoDocument
        /\ disc \in DiscStates
        /\ gvrArg \in AllGVRs

checkVars == <<clusterVars, phase, pass, resources, namespaces, nsIdx, resIdx, objects,
               objIdx, obj, results, err, mode, gvrArg, origin, gateCalls, listCalls, getCalls,
               fetched, errLog, firstResults, firstErr>>

\* k8s.go:260
ApplyCheckStuckFinalizers ==
  /\ mode = "CheckStuckFinalizers"
  /\ step = "call"
  /\ finalizerIssues' = CheckStuckFinalizers(obj)
  /\ step' = "returned"
  /\ UNCHANGED <<ownerRefIssues, supportsList>>
  /\ UNCHANGED checkVars

\* k8s.go:267
ApplyCheckInvalidOwnerReferences ==
  /\ mode = "CheckInvalidOwnerReferences"
  /\ step = "call"
  /\ ownerRefIssues' = CheckInvalidOwnerReferences(store, obj, namespaces[nsIdx])
  /\ step' = "returned"
  /\ UNCHANGED <<finalizerIssues, supportsList>>
  /\ UNCHANGED checkVars

\* k8s.go:234
ApplyResourceSupportsList ==
  /\ mode = "resourceSupportsList"
  /\ step = "call"
  /\ supportsList' = resourceSupportsList(disc, gvrArg)
  /\ step' = "returned"
  /\ UNCHANGED <<finalizerIssues, ownerRefIssues>>
  /\ UNCHANGED checkVars

NextChecks ==
  \/ ApplyCheckStuckFinalizers
  \/ ApplyCheckInvalidOwnerReferences
  \/ ApplyResourceSupportsList

SpecChecks == InitChecks /\ [][NextChecks]_vars

\* ---- the claims ----

\* C1: CheckStuckFinalizers returns exactly one finding, "Stuck finalizer" with the
\* object's namespace, kind and name, for an object whose finalizer list is not
\* empty and whose deletion timestamp is set, however many finalizers it has, and
\* no finding for any other object.
C1_OneStuckFinalizerFindingPerObject ==
  (mode = "CheckStuckFinalizers" /\ step = "returned") =>
     IF obj.Finalizers # <<>> /\ obj.DeletionTimestamp # Null
     THEN /\ Len(finalizerIssues) = 1
          /\ finalizerIssues[1].Issue = "Stuck finalizer"
          /\ finalizerIssues[1].Namespace = obj.Namespace
          /\ finalizerIssues[1].Resource = obj.Kind
          /\ finalizerIssues[1].Name = obj.Name
     ELSE Len(finalizerIssues) = 0

\* an object with two finalizers, being deleted, has been checked
C1_Witness ==
  /\ mode = "CheckStuckFinalizers"
  /\ step = "returned"
  /\ Len(obj.Finalizers) = 2
  /\ obj.DeletionTimestamp # Null
  /\ Len(finalizerIssues) = 1

\* C2: CheckInvalidOwnerReferences returns one "Invalid ownerReference" finding
\* for each declared owner reference the Owner Resolver does not resolve, in the
\* order of declaration, and nothing else: as many findings as dangling
\* references, none for an object without owner references.
C2_OneFindingPerDanglingOwner ==
  (mode = "CheckInvalidOwnerReferences" /\ step = "returned") =>
     LET owners == obj.OwnerReferences
         dangling == {n \in 1..Len(owners) : ~OwnerExists(store, owners[n], namespaces[nsIdx])}
     IN /\ Len(ownerRefIssues) = Cardinality(dangling)
        /\ \A n \in dangling :
             LET k == Cardinality({m \in dangling : m <= n})
             IN /\ ownerRefIssues[k].Issue = "Invalid ownerReference"
                /\ ownerRefIssues[k].AdditionalInfo = OwnerInfo(owners[n])
                /\ ownerRefIssues[k].Namespace = obj.Namespace
                /\ ownerRefIssues[k].Resource = obj.Kind
                /\ ownerRefIssues[k].Name = obj.Name
        /\ (owners = <<>> => ownerRefIssues = <<>>)

\* an object whose first owner resolves and whose second does not has been
\* checked: one finding, about the second
C2_Witness ==
  /\ mode = "CheckInvalidOwnerReferences"
  /\ step = "returned"
  /\ Len(obj.OwnerReferences) = 2
  /\ OwnerExists(store, obj.OwnerReferences[1], "app")
  /\ ~OwnerExists(store, obj.OwnerReferences[2], "app")
  /\ Len(ownerRefIssues) = 1
  /\ ownerRefIssues[1].AdditionalInfo = OwnerInfo(obj.OwnerReferences[2])

\* C3: an owner reference whose target object exists in the scanned object's
\* namespace (an object of the reference's apiVersion and kind, with its name,
\* served under the kind's plural resource name) gets no finding.
C3_ExistingOwnerHasNoFinding ==
  (mode = "CheckInvalidOwnerReferences" /\ step = "returned") =>
     LET ns == namespaces[nsIdx]
         TargetExists(owner) ==
           \E l \in Range(Catalog) :
             /\ l.GroupVersion = owner.APIVersion
             /\ \E r \in Range(l.APIResources) :
                  /\ r.Kind = owner.Kind
                  /\ r.Namespaced
                  /\ \E o \in Range(store[<<ns, r.Name>>]) : o.Name = owner.Name
     IN \A n \in 1..Len(obj.OwnerReferences) :
          TargetExists(obj.OwnerReferences[n]) =>
            \A k \in 1..Len(ownerRefIssues) :
              ownerRefIssues[k].AdditionalInfo # OwnerInfo(obj.OwnerReferences[n])

\* C10: resourceSupportsList answers true exactly when the catalog the discovery
\* query returned lists a resource with the type's group/version and resource
\* name whose verbs include "list".
C10_GateIffCatalogListsListVerb ==
  (mode = "resourceSupportsList" /\ step = "returned") =>
     LET catalog == ServerPreferredResources(disc).lists
     IN supportsList <=>
          \E l \in Range(catalog) :
            /\ l.GroupVersion = GroupVersionString(GVRGroupVersion(gvrArg))
            /\ \E r \in Range(l.APIResources) :
                 r.Name = gvrArg.Resource /\ "list" \in Range(r.Verbs)

\* C4: when the namespace listing fails, or resource-type discovery fails
\* totally, the step that meets the failure ends the pass with an error and a
\* nil finding list, nothing having been listed, fetched or checked.
C4_FatalDiscoveryFailureAborts ==
  [][ ( /\ \/ phase = "DiscoverTypes" /\ disc = "total"
           \/ phase = "DiscoverNamespaces" /\ nsErr
        /\ phase' # phase )
      => ( /\ phase' = "Done"
           /\ err' = TRUE
           /\ results' = <<>>
           /\ gateCalls' = {}
           /\ listCalls' = {}
           /\ getCalls' = {}
           /\ fetched' = {} ) ]_vars

\* a pass has ended on the failure of the namespace listing, the resource
\* types having been discovered
C4_Witness ==
  /\ phase = "Done"
  /\ err
  /\ nsErr
  /\ Len(resources) > 0
  /\ results = <<>>

\* C5: when discovery fails for one group for the whole pass, the pass ends
\* without error, and every list-capable namespaced type of the other groups is
\* listed in every namespace, its objects fetched and their findings reported.
C5_PartialDiscoveryScansOtherGroups ==
  (phase = "Done" /\ pass = 1 /\ disc = "partial" /\ changes = 0 /\ ~nsErr) =>
     /\ ~err
     /\ \A ns \in Range(clusterNs) :
          \A r \in Range(GetNamespaceScopedResources("partial").resources) :
            SeqHas(ServedBy(r)[1].Verbs, "list") =>
              /\ <<ns, r>> \in listCalls
              /\ \A o \in Range(GetNamespaceObjects(store, listErr, ns, r).names) :
                   LET g == DynGet(store, ns, r, o)
                   IN g.err = "nil" =>
                        /\ <<ns, r, o>> \in fetched
                        /\ \A f \in Range(CheckStuckFinalizers(g.doc)) : f \in Range(results)

\* C8: for a resource type whose discovered verbs lack "list", the scan issues
\* no list call and no get call, logs no fetch error, and reports no finding of
\* an object of that type.
C8_TypesWithoutListAreNotTouched ==
  /\ \A c \in listCalls : c[2] \notin TypesWithoutList
  /\ \A c \in getCalls : c[2] \notin TypesWithoutList
  /\ \A e \in errLog : e[1] \in {"list", "get"} => e[3] \notin TypesWithoutList
  /\ \A n \in 1..Len(origin) : origin[n][2] \notin TypesWithoutList

\* a pass over a healthy discovery endpoint met bindings, which cannot be listed,
\* and ended with findings
C8_Witness ==
  /\ phase = "Done"
  /\ ~err
  /\ disc = "ok"
  /\ changes = 0
  /\ \E c \in gateCalls : c[2] \in TypesWithoutList
  /\ Len(results) > 0

\* C9: a second invocation against the unchanged cluster returns the same
\* multiset of findings, and the same error, as the first.
C9_SecondPassReturnsTheSame ==
  (phase = "Done" /\ pass >= 2 /\ changes = 0) =>
     LET Count(s, x) == Cardinality({n \in 1..Len(s) : s[n] = x})
     IN /\ err = firstErr
        /\ Len(results) = Len(firstResults)
        /\ \A n \in 1..Len(results) : Count(results, results[n]) = Count(firstResults, results[n])

\* a second invocation has returned findings from the unchanged cluster
C9_Witness ==
  /\ phase = "Done"
  /\ pass = 2
  /\ changes = 0
  /\ Len(firstResults) > 1
  /\ Len(results) > 1

\* C6: a failing list call or get call skips only its pair or its object: a pass
\* that reaches Traverse always ends, without error, the gate having been
\* evaluated for every namespace and resource type, every object of every pair
\* listed without failure having been asked for, and the findings of every
\* object fetched without failure being in the result.
C6_PerItemFailuresSkipOnlyTheItem ==
  /\ (phase = "Traverse") ~> (phase = "Done" /\ ~err)
  /\ []( (phase = "Done" /\ ~err) =>
          /\ gateCalls = Range(namespaces) \X Range(resources)
          /\ \A c \in listCalls :
               \A o \in Range(GetNamespaceObjects(store, listErr, c[1], c[2]).names) :
                 /\ <<c[1], c[2], o>> \in getCalls
                 /\ DynGet(store, c[1], c[2], o).err = "nil" => <<c[1], c[2], o>> \in fetched
          /\ \A f \in fetched :
               LET doc == DynGet(store, f[1], f[2], f[3]).doc
                   expected == Appended(CheckStuckFinalizers(doc),
                                        CheckInvalidOwnerReferences(store, doc, f[1]))
                   at == {n \in 1..Len(origin) : origin[n] = f}
               IN /\ Cardinality(at) = Len(expected)
                  /\ \A n \in at : results[n] = expected[Cardinality({m \in at : m <= n})] )

\* a pass has ended without error after a failed listing in the first namespace
\* and a failed get, with a finding from the namespace after it
C6_Witness ==
  /\ phase = "Done"
  /\ ~err
  /\ \E e \in errLog : e[1] = "list" /\ e[2] = "app"
  /\ \E e \in errLog : e[1] = "get"
  /\ \E n \in 1..Len(origin) : origin[n][1] = "kube-system"

\* C7: no finding of the result stems from a failed call: each comes from an
\* object fetched without failure, of a pair listed without failure, and an
\* "Invalid ownerReference" finding is never about an owner whose get failed
\* for another reason than the owner being absent.
C7_FailedCallsAddNoFinding ==
  \A n \in 1..Len(results) :
    /\ origin[n] \in fetched
    /\ <<"list", origin[n][1], origin[n][2]>> \notin errLog
    /\ <<"get", origin[n][1], origin[n][2], origin[n][3]>> \notin errLog
    /\ results[n].Issue = "Invalid ownerReference" =>
         LET info == results[n].AdditionalInfo
             owner == [APIVersion |-> info[3], Kind |-> info[5], Name |-> info[7]]
         IN ~ParseGroupVersion(owner.APIVersion).err =>
              DynGet(store, results[n].Namespace, OwnerResource(owner), owner.Name).err # "other"

\* C11: a pass moves through Init, DiscoverTypes, DiscoverNamespaces, Traverse,
\* Done in that order, never backwards and never retrying: a failed discovery
\* of the types ends the pass before the namespaces are asked for, a failed
\* namespace listing ends it before Traverse, Traverse is entered only from a
\* namespace listing that succeeded after a type discovery that succeeded, and
\* only a new invocation leaves Done.
C11_PhasesInOrder ==
  [][ phase' # phase =>
        \/ /\ phase = "Init"
           /\ phase' = "DiscoverTypes"
           /\ pass' = pass
        \/ /\ phase = "DiscoverTypes"
           /\ pass' = pass
           /\ IF GetNamespaceScopedResources(disc).err
              THEN phase' = "Done" /\ err' /\ namespaces' = <<>> /\ gateCalls' = {}
              ELSE phase' = "DiscoverNamespaces" /\ ~err'
        \/ /\ phase = "DiscoverNamespaces"
           /\ pass' = pass
           /\ IF nsErr
              THEN phase' = "Done" /\ err' /\ gateCalls' = {}
              ELSE phase' = "Traverse" /\ ~err' /\ namespaces' = clusterNs
        \/ /\ phase = "Traverse"
           /\ phase' = "Done"
           /\ pass' = pass
           /\ ~err'
        \/ /\ phase = "Done"
           /\ phase' = "Init"
           /\ pass' = pass + 1 ]_vars

\* a second pass has ended on a total failure of the discovery of the types,
\* the first one having gone through Traverse
C11_Witness ==
  /\ phase = "Done"
  /\ pass = 2
  /\ err
  /\ resources = <<>>
  /\ namespaces = <<>>
  /\ ~firstErr
  /\ Len(firstResults) > 0

\* the objects of the cluster in the order of the loops of k8s.go:230-250:
\* namespaces as enumerated, types as discovered, names as listed
TraversalOrder(nss, rs, st, failing) ==
  Concat([i \in 1..Len(nss) |->
    Concat([j \in 1..Len(rs) |->
      [k \in 1..Len(GetNamespaceObjects(st, failing, nss[i], rs[j]).names) |->
         <<nss[i], rs[j], GetNamespaceObjects(st, failing, nss[i], rs[j]).names[k]>>]])])

\* the findings of one object: the one on its finalizers, then those on its
\* owners that do not resolve
ObjectFindings(st, t) ==
  LET g == DynGet(st, t[1], t[2], t[3])
  IN IF g.err # "nil" THEN <<>>
     ELSE CheckStuckFinalizers(g.doc) \o CheckInvalidOwnerReferences(st, g.doc, t[1])

\* the findings of the objects of `got`, in the order of the traversal
ExpectedResults(nss, rs, st, failing, got) ==
  LET order == TraversalOrder(nss, rs, st, failing)
  IN Concat([n \in 1..Len(order) |->
               IF order[n] \in got THEN ObjectFindings(st, order[n]) ELSE <<>>])

\* C12: the list a successful pass returns is the concatenation, in the order
\* of the traversal (namespaces as enumerated, types as discovered, objects as
\* listed), of the findings of every object fetched, an object's findings being
\* the one on its finalizers followed by those on its owners; an object stuck in
\* deletion with k owners that do not resolve has 1 + k findings in the list.
C12_ResultsAreTheConcatenation ==
  (phase = "Done" /\ ~err) =>
     /\ results = ExpectedResults(namespaces, resources, store, listErr, fetched)
     /\ \A t \in fetched :
          LET o == DynGet(store, t[1], t[2], t[3]).doc
              k == Cardinality({n \in 1..Len(o.OwnerReferences) :
                                  ~OwnerExists(store, o.OwnerReferences[n], t[1])})
              mine == {n \in 1..Len(results) : origin[n] = t}
          IN (Len(o.Finalizers) > 0 /\ o.DeletionTimestamp # Null)
                => Cardinality(mine) = 1 + k

\* a pass has returned the findings of objects of two namespaces, one object
\* having its finding on the finalizers followed by one on an owner
C12_Witness ==
  /\ phase = "Done"
  /\ ~err
  /\ Len(results) >= 3
  /\ \E n \in 1..(Len(results) - 1) :
        /\ results[n].Issue = StuckFinalizer
        /\ results[n + 1].Issue = InvalidOwnerReference
        /\ origin[n] = origin[n + 1]
  /\ \E n, m \in 1..Len(results) : results[n].Namespace # results[m].Namespace

\* the object t (namespace, type, name) was returned by a get of this pass,
\* having been named by a listing of this pass that succeeded
FetchedAndListed(t) ==
  /\ t \in fetched
  /\ <<t[1], t[2]>> \in listCalls
  /\ <<"list", t[1], t[2]>> \notin errLog
  /\ SeqHas(GetNamespaceObjects(store, listErr, t[1], t[2]).names, t[3])
  /\ DynGet(store, t[1], t[2], t[3]).err = "nil"

\* C13: at every point of a pass, each finding accumulated so far carries the
\* namespace and name (and kind) of the object whose get produced it, a get of
\* this pass that succeeded, for a pair whose listing succeeded and named the
\* object; and a pair is listed only when the gate has just answered true for
\* it.
C13_FindingsAreAboutFetchedObjects ==
  /\ [](/\ Len(origin) = Len(results)
        /\ \A n \in 1..Len(results) :
              /\ FetchedAndListed(origin[n])
              /\ results[n].Namespace = origin[n][1]
              /\ results[n].Name = origin[n][3]
              /\ results[n].Resource =
                    DynGet(store, origin[n][1], origin[n][2], origin[n][3]).doc.Kind)
  /\ [][ listCalls' \ listCalls # {} =>
           /\ supportsList
           /\ <<namespaces[nsIdx], gvrArg>> \in gateCalls
           /\ listCalls' = listCalls \cup {<<namespaces[nsIdx], gvrArg>>} ]_vars

\* in the middle of a traversal there are findings, a get that failed and a
\* listing that failed
C13_Witness ==
  /\ phase = "Traverse"
  /\ Len(results) > 0
  /\ \E e \in errLog : e[1] = "get"
  /\ \E e \in errLog : e[1] = "list"
  /\ getCalls # fetched

\* C14: the gate asks discovery anew for every (namespace, type) pair; when
\* that query returns an error, the partial one included, the gate answers
\* false, the pair is left without a list call and without findings, and the
\* traversal goes on; a traversal always ends in a successful return, every
\* pair having been through the gate; a pass in which no pair was listed, as
\* when the error lasts for the whole traversal, returns success with an empty
\* list.
C14_GateFalseOnAnyDiscoveryError ==
  /\ [][ gateCalls' \ gateCalls # {} =>
           /\ gateCalls' = gateCalls \cup {<<namespaces[nsIdx], resources[resIdx]>>}
           /\ <<namespaces[nsIdx], resources[resIdx]>> \notin gateCalls
           /\ ServerPreferredResources(disc).err # "nil" =>
                /\ ~supportsList'
                /\ step' = "gate"
                /\ listCalls' = listCalls
                /\ getCalls' = getCalls
                /\ results' = results
                /\ phase' = "Traverse"
                /\ <<nsIdx', resIdx'>> = NextPair(namespaces, resources, nsIdx, resIdx) ]_vars
  /\ [](phase = "Done" /\ ~err =>
           /\ gateCalls = {<<namespaces[i], resources[j]>> :
                             i \in 1..Len(namespaces), j \in 1..Len(resources)}
           /\ listCalls = {} => results = <<>>
           /\ (disc = "partial" /\ changes = 0) => (listCalls = {} /\ results = <<>>))
  /\ (phase = "Traverse") ~> (phase = "Done" /\ ~err)

\* a pass over pods with findings, under a discovery that fails for one group
\* all along, has returned success with no finding, every pair refused by the
\* gate
C14_Witness ==
  /\ phase = "Done"
  /\ ~err
  /\ disc = "partial"
  /\ changes = 0
  /\ results = <<>>
  /\ listCalls = {}
  /\ Cardinality(gateCalls) >= 4
  /\ \E gvr \in Range(resources) : <<"probe", gvr>> \in errLog
  /\ \E k \in DOMAIN store : \E n \in 1..Len(store[k]) :
        Len(CheckStuckFinalizers(Document(k[1], store[k][n]))) > 0
====
